---- MODULE Spec2Model ----
(***************************************************************************)
(* Sanctions-list synchronisation of zkbitcoin.                            *)
(*                                                                         *)
(* The repository holds two AddressVerifier implementations:               *)
(*   - src/src/compliance.rs: plain fields, sync(&mut self) called from    *)
(*     the loop of start(&'static mut self) (variant "sync");              *)
(*   - src/src/address_verifier.rs: the fields behind Arc<RwLock<..>>, the *)
(*     whole cycle inlined in the loop of start(&self) (variant "lock").   *)
(* A run of the model is a run of one of the two; Init picks which.        *)
(* extract_from_xml, publish_date and the body of the parse loop are       *)
(* textually the same in both files and are modelled once.                 *)
(*                                                                         *)
(* Spec is the scheduler with its lookups. SpecDated is Spec with the      *)
(* publish date of every insert recorded; SpecRetry runs the loops fairly  *)
(* against a remote list that does not change; SpecReparse runs the parse  *)
(* pass twice over one document; SpecTx is create_transaction of           *)
(* src/src/mpc_sign_tx.rs on its own.                                      *)
(***************************************************************************)
EXTENDS Integers, Sequences, FiniteSets, TLC

\* ------------------------------------------------------------------ bounds

\* Deepest element nesting of a fetched document.
MaxDepth == 2

\* Longest document, in reader events, that is kept to be parsed again.
MaxEvents == 7

\* Width in bits of the satoshi amounts of create_transaction (u64 in the
\* source): the arithmetic is modulo 2^AmountBits.
AmountBits == 3

\* Tasks that may run the scheduler loop: start(&self) of the lock-guarded
\* variant can be called again and then runs a second loop on the same state;
\* the other variant can be started once.
Tasks == {1, 2}

\* "sync": compliance.rs run by start(); "call": compliance.rs in the hands of
\* an owner that calls the public sync() itself and looks addresses up
\* between the calls; "lock": address_verifier.rs.
Variants == {"sync", "lock", "call"}
Compliance == {"sync", "call"}

\* Address strings that occur as character content of fetched documents.
Addr == {"1A2b3C", "zZyYxX"}

\* ------------------------------------------------------- program constants

BTC_ID == "344"

SecondsPerDay == 86400

\* ------------------------------------------------------------------- state

VARIABLES
    variant,               \* which AddressVerifier this run is
    pc,                    \* pc[t]: position of scheduler task t
    sanctioned_addresses,  \* the HashMap<String, bool>, as a function
    last_update,           \* the i64 timestamp
    addr_writer,           \* task holding sanctioned_addresses.write(), 0: none
    ts_writer,             \* task holding last_update.write(), 0: none
    publish_date,          \* publish_date[t]: the local of the cycle
    inside_feature_elem,   \* per task: local flag of the parse loop
    inside_final_elem,     \* per task: local flag of the parse loop
    docPhase,              \* per task: where the event reader is in its document
    docStack,              \* per task: the open elements of the document read
    outcome,               \* per task: how its last cycle ended, "running" in a pass
    before,                \* per task: last_update when the cycle's probe returned
    probe_failed,          \* per task: the last response admitted no publish date
    expected,              \* per task: addresses the inclusion rule selects, this pass
    qualified,             \* addresses the inclusion rule ever selected
    inserted,              \* addresses a parse pass has added to the map
    ticked,                \* per task: it awaited a tick since its last probe
    inserted_for,          \* the latest publish date whose cycle added an address
                           \* (kept by SpecDated only)
    replay,                \* a document kept to be parsed a second time
    reader,                \* a lookup caller: "reading" while it holds
                           \* sanctioned_addresses.read()
    answer,                \* what the last is_sanctioned call was asked and returned
    tx                     \* the last create_transaction call and how it ended

\* outcome, before, probe_failed, expected, qualified, inserted, ticked and
\* inserted_for record what happened (how a cycle ended, what the document
\* held); no action's guard or program variable depends on them.
registry == <<sanctioned_addresses, last_update>>
locks == <<addr_writer, ts_writer>>
parser == <<inside_feature_elem, inside_final_elem, docPhase, docStack>>
history == <<outcome, before, probe_failed, expected, qualified, inserted, ticked,
            inserted_for>>
\* State the scheduler loop never touches.
aside == <<replay, reader, answer, tx>>
vars == <<variant, pc, publish_date, registry, locks, parser, history, aside>>

\* ------------------------------------------------- the staleness probe

\* What the regex of extract_from_xml finds for one tag in the first chunk:
\* nothing, or the text matched by \s*(\w+) (the lookarounds are zero-width,
\* so leading whitespace is part of the match that is then parsed as u32).
NoMatch == [matched |-> FALSE, ws |-> FALSE, digits |-> FALSE, val |-> 0]
Word == [matched |-> TRUE, ws |-> FALSE, digits |-> FALSE, val |-> 0]
Spaced(n) == [matched |-> TRUE, ws |-> TRUE, digits |-> TRUE, val |-> n]
Num(n) == [matched |-> TRUE, ws |-> FALSE, digits |-> TRUE, val |-> n]

YearTexts == {NoMatch, Num(1970)}
MonthTexts == {Spaced(1), Num(1), Num(2), Num(13)}
DayTexts == {Word, Num(1), Num(30)}

\* A response to the probe's GET: whether the request succeeded, how many
\* chunks the body stream delivered before take(1) ended it, whether reading
\* the chunk failed, whether it is UTF-8, and the date fields in it.
Response(tr, n, ok, u, y, m, d) ==
    [transport |-> tr, chunks |-> n, chunkOk |-> ok, utf8 |-> u,
     Year |-> y, Month |-> m, Day |-> d]

Responses ==
    { Response(FALSE, 0, TRUE, TRUE, NoMatch, NoMatch, NoMatch),   \* no connection
      Response(TRUE, 0, TRUE, TRUE, NoMatch, NoMatch, NoMatch),    \* empty body
      Response(TRUE, 1, FALSE, TRUE, NoMatch, NoMatch, NoMatch),   \* read error
      Response(TRUE, 1, TRUE, FALSE, NoMatch, NoMatch, NoMatch) }  \* not UTF-8
    \cup { Response(TRUE, 1, TRUE, TRUE, y, m, d) :
             y \in YearTexts, m \in MonthTexts, d \in DayTexts }

Ok(v) == [kind |-> "Ok", val |-> v]
Err == [kind |-> "Err", val |-> 0]
Panic == [kind |-> "Panic", val |-> 0]

extract_from_xml(str_value, tag) ==
    LET m == str_value[tag]
    IN  IF ~m.matched THEN Err
        ELSE IF m.ws \/ ~m.digits THEN Err
        ELSE Ok(m.val)

IsLeap(y) == (y % 4 = 0 /\ y % 100 # 0) \/ y % 400 = 0

DaysInMonth(y, m) ==
    IF m = 2 THEN (IF IsLeap(y) THEN 29 ELSE 28)
    ELSE IF m \in {4, 6, 9, 11} THEN 30 ELSE 31

RECURSIVE DaysBeforeMonth(_, _)
DaysBeforeMonth(y, m) ==
    IF m <= 1 THEN 0 ELSE DaysBeforeMonth(y, m - 1) + DaysInMonth(y, m - 1)

RECURSIVE DaysBeforeYear(_)
DaysBeforeYear(y) ==
    IF y <= 1970 THEN 0
    ELSE DaysBeforeYear(y - 1) + (IF IsLeap(y - 1) THEN 366 ELSE 365)

\* A date constructor that normalises out-of-range fields instead of
\* rejecting them (the 13th month runs into the next year).
with_ymd_and_hms_lenient(y, m, d) ==
    Ok(SecondsPerDay * (DaysBeforeYear(y) + DaysBeforeMonth(y, m) + d - 1))

\* Utc.with_ymd_and_hms(y, m, d, 0, 0, 0).single()...timestamp()
with_ymd_and_hms(y, m, d) ==
    IF m \in 1..12 /\ d \in 1..DaysInMonth(y, m)
    THEN Ok(SecondsPerDay * (DaysBeforeYear(y) + DaysBeforeMonth(y, m) + d - 1))
    ELSE Err

publish_date_of(res) ==
    IF ~res.transport THEN Err
    ELSE IF res.chunks = 1 /\ ~res.chunkOk THEN Err
    ELSE IF res.chunks = 0 THEN Panic          \* head[0] on an empty Vec
    ELSE IF ~res.utf8 THEN Err
    ELSE LET year == extract_from_xml(res, "Year")
             day == extract_from_xml(res, "Day")
             month == extract_from_xml(res, "Month")
         IN  IF year.kind # "Ok" THEN Err
             ELSE IF day.kind # "Ok" THEN Err
             ELSE IF month.kind # "Ok" THEN Err
             ELSE with_ymd_and_hms(year.val, month.val, day.val)

\* The failures a probe can meet, read off the response: no connection, a
\* chunk that cannot be read or decoded, a date field that is absent or is
\* not a number, a date that is not in the calendar.
NotNumber(m) == ~m.matched \/ m.ws \/ ~m.digits

ProbeFails(res) ==
    \/ ~res.transport
    \/ res.chunks = 1 /\ ~res.chunkOk
    \/ res.chunks = 1 /\ ~res.utf8
    \/ res.chunks = 1 /\ (NotNumber(res.Year) \/ NotNumber(res.Month) \/ NotNumber(res.Day))
    \/ res.chunks = 1 /\ ~(res.Month.val \in 1..12
                            /\ res.Day.val \in 1..DaysInMonth(res.Year.val, res.Month.val))

\* The comparison as a test for "same date" instead of "not newer".
UpToDate_same(last, date) == last = date

\* The comparison with its operands the wrong way round.
UpToDate_flipped(last, date) == last <= date

\* The comparison that ends a cycle as "up-to-date".
UpToDate(last, date) == last >= date


\* ------------------------------------------------- the fetched document

\* Elements of a fetched document: name and attributes.
Attr(n, v) == [name |-> n, value |-> v]
Elem(n, as) == [name |-> n, attributes |-> as]

Elements ==
    { Elem("Feature", {Attr("FeatureTypeID", "344")}),
      Elem("Feature", {Attr("FeatureTypeID", "999")}),
      Elem("VersionDetail", {}),
      Elem("DistinctParty", {}) }

\* The items the EventReader iterator yields.
Event(k, n, as, v) == [kind |-> k, name |-> n, attributes |-> as, value |-> v]
StartDocument == Event("StartDocument", "", {}, "")
EndDocument == Event("EndDocument", "", {}, "")
StartElement(el) == Event("StartElement", el.name, el.attributes, "")
EndElement(el) == Event("EndElement", el.name, {}, "")
Characters(v) == Event("Characters", "", {}, v)
ParseError == Event("Err", "", {}, "")

\* What the reader can yield next on a document of which it has read up to
\* phase `phase` with the elements `stack` open: the events of a well-formed
\* document (one root element, every end tag closing the innermost open
\* element), or an error wherever the text is malformed or cut short.
NextEvents(phase, stack) ==
    CASE phase = "start" -> {StartDocument, ParseError}
      [] phase = "prolog" -> {StartElement(el) : el \in Elements} \cup {ParseError}
      [] phase = "body" ->
            {EndElement(stack[Len(stack)]), ParseError}
            \cup {Characters(v) : v \in Addr}
            \cup (IF Len(stack) < MaxDepth
                  THEN {StartElement(el) : el \in Elements} ELSE {})
      [] phase = "epilog" -> {EndDocument, ParseError}
      [] OTHER -> {}

StackAfter(stack, e) ==
    IF e.kind = "StartElement" THEN Append(stack, Elem(e.name, e.attributes))
    ELSE IF e.kind = "EndElement" THEN SubSeq(stack, 1, Len(stack) - 1)
    ELSE stack

PhaseAfter(phase, stack, e) ==
    CASE e.kind = "StartDocument" -> "prolog"
      [] e.kind = "StartElement" -> "body"
      [] e.kind = "EndElement" -> IF Len(stack) = 1 THEN "epilog" ELSE "body"
      [] e.kind = "EndDocument" -> "end"
      [] e.kind = "Err" -> "end"
      [] OTHER -> phase

\* The inclusion rule, read off the document: character content qualifies
\* when it lies in a VersionDetail element that is nested inside a Feature
\* element whose FeatureTypeID attribute is "344".
IsTargetFeature(el) ==
    el.name = "Feature" /\ Attr("FeatureTypeID", "344") \in el.attributes

\* ... anywhere below such a VersionDetail,
InVersionDetail(stack) ==
    \E i, j \in DOMAIN stack :
        i < j /\ IsTargetFeature(stack[i]) /\ stack[j].name = "VersionDetail"

\* ... or directly in it.
DirectlyInVersionDetail(stack) ==
    /\ stack # <<>>
    /\ stack[Len(stack)].name = "VersionDetail"
    /\ \E i \in 1..(Len(stack) - 1) : IsTargetFeature(stack[i])

\* ------------------------------------------------------ the parse loop

Flags(feature, final) == [inside_feature_elem |-> feature, inside_final_elem |-> final]

\* Ok(XmlEvent::StartElement { name, attributes, .. })
OnStartElement(f, name, attributes) ==
    IF name = "Feature"
    THEN IF \E a \in attributes : a.name = "FeatureTypeID" /\ a.value = BTC_ID
         THEN Flags(TRUE, f.inside_final_elem)
         ELSE f
    ELSE IF name = "VersionDetail" /\ f.inside_feature_elem
         THEN Flags(f.inside_feature_elem, TRUE)
         ELSE f

\* Ok(XmlEvent::EndElement { name, .. })
OnEndElement(f, name) ==
    IF name = "VersionDetail" /\ f.inside_feature_elem
    THEN Flags(FALSE, FALSE)
    ELSE f

\* An insert into a map built anew instead of into the registry's map.
Insert_fresh(map, key, value) == [k \in {key} |-> value]

\* An insert that takes a key already present for a duplicate and drops it.
Insert_toggle(map, key, value) ==
    IF key \in DOMAIN map
    THEN [k \in DOMAIN map \ {key} |-> map[k]]
    ELSE [k \in DOMAIN map \cup {key} |-> value]

\* HashMap::insert(key, value)
Insert(map, key, value) ==
    [k \in DOMAIN map \cup {key} |-> IF k = key THEN value ELSE map[k]]

\* Ok(XmlEvent::Characters(value))
OnCharacters(map, f, value) ==
    IF f.inside_final_elem THEN Insert(map, value, TRUE) ELSE map

\* The flags after the arm of the match that event e selects.
FlagsAfter(f, e) ==
    CASE e.kind = "StartElement" -> OnStartElement(f, e.name, e.attributes)
      [] e.kind = "EndElement" -> OnEndElement(f, e.name)
      [] OTHER -> f

\* The map after the arm of the match that event e selects.
MapAfter(map, f, e) ==
    IF e.kind = "Characters" THEN OnCharacters(map, f, e.value) ELSE map

\* The loop with `continue` in the Err arm.
PassOver_continue(e) == e.kind = "EndDocument"

\* The for loop is left after this event: `break` on Err, and the iterator
\* is exhausted once it has yielded EndDocument.
PassOver(e) == e.kind \in {"Err", "EndDocument"}


\* ------------------------------------------------------------ the cycle

\* What a create_transaction call that panicked has returned: nothing.
NoTransaction == [input |-> <<>>, output |-> <<>>]

\* create_transaction has not been called.
NoTx ==
    [called |-> FALSE, utxo |-> <<"", 0>>, bob_address |-> "", satoshi_amount |-> 0,
     fee_bitcoin_sat |-> 0, fee_zkbitcoin_sat |-> 0,
     result |-> [kind |-> "Panic", val |-> NoTransaction]]

\* No lookup has been made.
NoAnswer == [address |-> "", found |-> FALSE]

\* No document is kept: the scheduler loop reads each document once.
NoReplay == [pass |-> 0, doc |-> <<>>, from |-> <<>>, once |-> <<>>]

Init ==
    /\ variant \in Variants
    /\ pc = [t \in Tasks |-> "unstarted"]
    /\ sanctioned_addresses = <<>>          \* HashMap::new()
    /\ last_update = 0
    /\ addr_writer = 0
    /\ ts_writer = 0
    /\ publish_date = [t \in Tasks |-> 0]
    /\ inside_feature_elem = [t \in Tasks |-> FALSE]
    /\ inside_final_elem = [t \in Tasks |-> FALSE]
    /\ docPhase = [t \in Tasks |-> "none"]
    /\ docStack = [t \in Tasks |-> <<>>]
    /\ outcome = [t \in Tasks |-> "none"]
    /\ before = [t \in Tasks |-> 0]
    /\ probe_failed = [t \in Tasks |-> FALSE]
    /\ expected = [t \in Tasks |-> {}]
    /\ qualified = {}
    /\ inserted = {}
    /\ ticked = [t \in Tasks |-> FALSE]
    /\ inserted_for = 0
    /\ replay = NoReplay
    /\ reader = "idle"
    /\ answer = NoAnswer
    /\ tx = NoTx

\* Where a task's loop iteration begins.
CycleStart(v) ==
    CASE v = "sync" -> "tick"
      [] v = "lock" -> "probe"
      [] OTHER -> "idle"        \* sync() has returned to its caller

\* The locals of a cycle go out of scope when it ends.
EndCycle(t, how) ==
    /\ pc' = [pc EXCEPT ![t] = CycleStart(variant)]
    /\ publish_date' = [publish_date EXCEPT ![t] = 0]
    /\ outcome' = [outcome EXCEPT ![t] = how]
    /\ before' = [before EXCEPT ![t] = 0]

\* start(): spawns the task that runs the loop. compliance.rs takes
\* &'static mut self, so the verifier can be started once; address_verifier.rs
\* takes &self, and every call spawns one more loop on the shared state.
Start(t) ==
    /\ pc[t] = "unstarted"
    /\ variant # "call"
    /\ variant = "sync" => \A u \in Tasks : pc[u] = "unstarted"
    /\ pc' = [pc EXCEPT ![t] = CycleStart(variant)]
    /\ UNCHANGED <<variant, aside, publish_date, registry, locks, parser, history>>

\* The probe of one cycle: publish_date() on the response received.
Probe(t, res) ==
    LET r == publish_date_of(res)
    IN  /\ CASE r.kind = "Ok" ->
                  /\ pc' = [pc EXCEPT ![t] = "compare"]
                  /\ publish_date' = [publish_date EXCEPT ![t] = r.val]
                  /\ outcome' = [outcome EXCEPT ![t] = "none"]
                  /\ before' = [before EXCEPT ![t] = last_update]
             [] r.kind = "Err" -> EndCycle(t, "probe failed")
             [] OTHER ->
                  /\ pc' = [pc EXCEPT ![t] = "panicked"]
                  /\ outcome' = [outcome EXCEPT ![t] = "none"]
                  /\ UNCHANGED <<publish_date, before>>
        /\ probe_failed' = [probe_failed EXCEPT ![t] = ProbeFails(res)]
        /\ expected' = [expected EXCEPT ![t] = {}]
        /\ ticked' = [ticked EXCEPT ![t] = FALSE]
        /\ UNCHANGED <<variant, registry, locks, parser, qualified, inserted, inserted_for>>

\* The parser's locals and the reader at the start of a pass.
BeginPass(t) ==
    /\ inside_feature_elem' = [inside_feature_elem EXCEPT ![t] = FALSE]
    /\ inside_final_elem' = [inside_final_elem EXCEPT ![t] = FALSE]
    /\ docPhase' = [docPhase EXCEPT ![t] = "start"]
    /\ docStack' = [docStack EXCEPT ![t] = <<>>]
    /\ expected' = [expected EXCEPT ![t] = {}]
    /\ pc' = [pc EXCEPT ![t] = "parse"]
    /\ outcome' = [outcome EXCEPT ![t] = "running"]
    /\ before' = [before EXCEPT ![t] = 0]
    /\ UNCHANGED <<publish_date, probe_failed, qualified, inserted, inserted_for, ticked>>

\* One turn of `for e in parser { match e { .. } }` on event e, and what
\* follows the loop when this turn leaves it.
\* (inserted_for is left to the action that takes the turn.)
ParseEvent(t, e) ==
    LET f == Flags(inside_feature_elem[t], inside_final_elem[t])
        g == FlagsAfter(f, e)
        over == PassOver(e)
    IN  /\ e \in NextEvents(docPhase[t], docStack[t])
        /\ sanctioned_addresses' = MapAfter(sanctioned_addresses, f, e)
        /\ inside_feature_elem' =
              [inside_feature_elem EXCEPT ![t] = IF over THEN FALSE ELSE g.inside_feature_elem]
        /\ inside_final_elem' =
              [inside_final_elem EXCEPT ![t] = IF over THEN FALSE ELSE g.inside_final_elem]
        /\ docPhase' = [docPhase EXCEPT ![t] =
                          IF over THEN "none" ELSE PhaseAfter(@, docStack[t], e)]
        /\ docStack' = [docStack EXCEPT ![t] = IF over THEN <<>> ELSE StackAfter(@, e)]
        /\ expected' = [expected EXCEPT ![t] =
                          IF e.kind = "Characters" /\ DirectlyInVersionDetail(docStack[t])
                          THEN @ \cup {e.value} ELSE @]
        /\ qualified' = IF e.kind = "Characters" /\ InVersionDetail(docStack[t])
                        THEN qualified \cup {e.value} ELSE qualified
        /\ inserted' = inserted \cup (DOMAIN sanctioned_addresses' \ DOMAIN sanctioned_addresses)
        /\ outcome' = [outcome EXCEPT ![t] =
                         CASE e.kind = "Err" -> "parse error"
                           [] e.kind = "EndDocument" -> "complete"
                           [] OTHER -> @]
        /\ IF over
           THEN /\ pc' = [pc EXCEPT ![t] = CycleStart(variant)]
                /\ publish_date' = [publish_date EXCEPT ![t] = 0]
           ELSE UNCHANGED <<pc, publish_date>>
        /\ UNCHANGED <<variant, last_update, before, probe_failed, ticked>>

\* ---- compliance.rs: start() calls sync() after every tick

SyncTick(t) ==
    /\ variant = "sync" /\ pc[t] = "tick"
    /\ pc' = [pc EXCEPT ![t] = "probe"]
    /\ outcome' = [outcome EXCEPT ![t] = "none"]
    /\ probe_failed' = [probe_failed EXCEPT ![t] = FALSE]
    /\ expected' = [expected EXCEPT ![t] = {}]
    /\ ticked' = [ticked EXCEPT ![t] = TRUE]
    /\ UNCHANGED <<variant, aside, publish_date, registry, locks, parser, before, qualified, inserted, inserted_for>>

\* sync() called by the owner of the verifier: &mut self admits one call at
\* a time.
CallSync(t) ==
    /\ variant = "call" /\ pc[t] \in {"unstarted", "idle"}
    /\ \A u \in Tasks \ {t} : pc[u] = "unstarted"
    /\ pc' = [pc EXCEPT ![t] = "probe"]
    /\ outcome' = [outcome EXCEPT ![t] = "none"]
    /\ probe_failed' = [probe_failed EXCEPT ![t] = FALSE]
    /\ expected' = [expected EXCEPT ![t] = {}]
    /\ UNCHANGED <<variant, aside, publish_date, registry, locks, parser, before, qualified, inserted, inserted_for, ticked>>

SyncProbe(t) ==
    /\ variant \in Compliance /\ pc[t] = "probe"
    /\ \E res \in Responses : Probe(t, res)
    /\ UNCHANGED aside

SyncCompare(t) ==
    /\ variant \in Compliance /\ pc[t] = "compare"
    /\ IF UpToDate(last_update, publish_date[t])
       THEN /\ EndCycle(t, "up-to-date")
            /\ UNCHANGED last_update
       ELSE /\ last_update' = publish_date[t]
            /\ pc' = [pc EXCEPT ![t] = "fetch"]
            /\ UNCHANGED <<publish_date, outcome, before>>
    /\ UNCHANGED <<variant, aside, sanctioned_addresses, locks, parser, probe_failed, expected, qualified, inserted, inserted_for, ticked>>

SyncFetch(t) ==
    /\ variant \in Compliance /\ pc[t] = "fetch"
    /\ \E got \in {"body", "get failed", "text failed"} :
          IF got = "body"
          THEN BeginPass(t)
          ELSE EndCycle(t, "fetch failed") /\ UNCHANGED <<parser, probe_failed, expected, qualified, inserted, inserted_for, ticked>>
    /\ UNCHANGED <<variant, aside, registry, locks>>

SyncRead(t) ==
    /\ variant \in Compliance /\ pc[t] = "parse"
    /\ \E e \in NextEvents(docPhase[t], docStack[t]) : ParseEvent(t, e)
    /\ UNCHANGED <<locks, aside>>

SyncParse(t) == SyncRead(t) /\ UNCHANGED inserted_for

\* ---- address_verifier.rs: the loop of start()

LockProbe(t) ==
    /\ variant = "lock" /\ pc[t] = "probe"
    /\ \E res \in Responses : Probe(t, res)
    /\ UNCHANGED aside

\* `*last_update.read().await >= publish_date`: the read guard is a temporary
\* of the condition, taken when no task holds the write guard.
LockCompare(t) ==
    /\ variant = "lock" /\ pc[t] = "compare"
    /\ ts_writer = 0
    /\ IF UpToDate(last_update, publish_date[t])
       THEN EndCycle(t, "up-to-date")
       ELSE /\ pc' = [pc EXCEPT ![t] = "acquire"]
            /\ UNCHANGED <<publish_date, outcome, before>>
    /\ UNCHANGED <<variant, aside, registry, locks, parser, probe_failed, expected, qualified, inserted, inserted_for, ticked>>

\* A write access that is granted at once, whoever holds the lock.
LockAcquire_unguarded(t) ==
    /\ variant = "lock" /\ pc[t] = "acquire"
    /\ addr_writer' = t
    /\ pc' = [pc EXCEPT ![t] = "tick"]
    /\ UNCHANGED <<variant, aside, publish_date, registry, ts_writer, parser, history>>

\* sanctioned_addresses.write().await: granted when no task holds the write
\* guard and no read guard is out.
LockAcquire(t) ==
    /\ variant = "lock" /\ pc[t] = "acquire"
    /\ addr_writer = 0
    /\ reader = "idle"
    /\ addr_writer' = t
    /\ pc' = [pc EXCEPT ![t] = "tick"]
    /\ UNCHANGED <<variant, aside, publish_date, registry, ts_writer, parser, history>>

\* interval.tick().await
LockTick(t) ==
    /\ variant = "lock" /\ pc[t] = "tick"
    /\ pc' = [pc EXCEPT ![t] = "set"]
    /\ ticked' = [ticked EXCEPT ![t] = TRUE]
    /\ UNCHANGED <<variant, aside, publish_date, registry, locks, parser,
                   outcome, before, probe_failed, expected, qualified, inserted, inserted_for>>

\* last_update.write().await; *last_update = publish_date
LockSet(t) ==
    /\ variant = "lock" /\ pc[t] = "set"
    /\ ts_writer = 0
    /\ ts_writer' = t
    /\ last_update' = publish_date[t]
    /\ pc' = [pc EXCEPT ![t] = "fetch"]
    /\ UNCHANGED <<variant, aside, publish_date, sanctioned_addresses, addr_writer, parser, history>>

\* Both write guards are locals of the loop body: dropped when the iteration
\* ends, by `continue` or at the closing brace.
Release(t) ==
    /\ addr_writer' = IF addr_writer = t THEN 0 ELSE addr_writer
    /\ ts_writer' = IF ts_writer = t THEN 0 ELSE ts_writer

LockFetch(t) ==
    /\ variant = "lock" /\ pc[t] = "fetch"
    /\ \E got \in {"body", "get failed", "text failed"} :
          IF got = "body"
          THEN BeginPass(t) /\ UNCHANGED locks
          ELSE /\ EndCycle(t, "fetch failed")
               /\ Release(t)
               /\ UNCHANGED <<parser, probe_failed, expected, qualified, inserted, inserted_for, ticked>>
    /\ UNCHANGED <<variant, aside, registry>>

LockRead(t) ==
    /\ variant = "lock" /\ pc[t] = "parse"
    /\ \E e \in NextEvents(docPhase[t], docStack[t]) :
          /\ ParseEvent(t, e)
          /\ IF PassOver(e) THEN Release(t) ELSE UNCHANGED locks
    /\ UNCHANGED aside

LockParse(t) == LockRead(t) /\ UNCHANGED inserted_for

\* ---- compliance.rs: is_sanctioned(&self, address)

is_sanctioned_flagged(map, address) == address \in DOMAIN map /\ ~map[address]

is_sanctioned(map, address) == address \in DOMAIN map

\* &self can be borrowed while no sync() call or start() holds &mut self.
Lookup(address) ==
    /\ variant \in Compliance
    /\ \A t \in Tasks : pc[t] \in {"unstarted", "idle"}
    /\ answer' = [address |-> address,
                  found |-> is_sanctioned(sanctioned_addresses, address)]
    /\ UNCHANGED <<variant, pc, publish_date, registry, locks, parser, history, replay, reader, tx>>

\* ---- a lookup on the lock-guarded registry
\*
\* address_verifier.rs has no lookup method; its callers hold clones of the
\* Arc<RwLock<..>> fields. A lookup takes sanctioned_addresses.read(), looks
\* the key up and drops the guard.

LookupBegin ==
    /\ variant = "lock" /\ reader = "idle"
    /\ addr_writer = 0
    /\ reader' = "reading"
    /\ UNCHANGED <<variant, pc, publish_date, registry, locks, parser, history, replay, answer, tx>>

LookupEnd ==
    /\ variant = "lock" /\ reader = "reading"
    /\ reader' = "idle"
    /\ UNCHANGED <<variant, pc, publish_date, registry, locks, parser, history, replay, answer, tx>>

Next ==
    \/ LookupBegin
    \/ LookupEnd
    \/ \E address \in Addr : Lookup(address)
    \/ \E t \in Tasks :
        \/ Start(t)
        \/ CallSync(t)
        \/ SyncTick(t)
        \/ SyncProbe(t)
        \/ SyncCompare(t)
        \/ SyncFetch(t)
        \/ SyncParse(t)
        \/ LockProbe(t)
        \/ LockCompare(t)
        \/ LockAcquire(t)
        \/ LockTick(t)
        \/ LockSet(t)
        \/ LockFetch(t)
        \/ LockParse(t)

Spec == Init /\ [][Next]_vars

\* ----------------------------- the same loops, with the date of each insert
\*
\* The scheduler as in Spec; a turn of the parse loop that adds an address
\* also records the publish date of the cycle it belongs to.

InsertedForAfter(t) ==
    IF DOMAIN sanctioned_addresses' # DOMAIN sanctioned_addresses
       /\ publish_date[t] > inserted_for
    THEN publish_date[t]
    ELSE inserted_for

DatedSyncParse(t) == SyncRead(t) /\ inserted_for' = InsertedForAfter(t)

DatedLockParse(t) == LockRead(t) /\ inserted_for' = InsertedForAfter(t)

NextDated ==
    \/ LookupBegin
    \/ LookupEnd
    \/ \E address \in Addr : Lookup(address)
    \/ \E t \in Tasks :
        \/ Start(t)
        \/ CallSync(t)
        \/ SyncTick(t)
        \/ SyncProbe(t)
        \/ SyncCompare(t)
        \/ SyncFetch(t)
        \/ DatedSyncParse(t)
        \/ LockProbe(t)
        \/ LockCompare(t)
        \/ LockAcquire(t)
        \/ LockTick(t)
        \/ LockSet(t)
        \/ LockFetch(t)
        \/ DatedLockParse(t)

SpecDated == Init /\ [][NextDated]_vars

\* ------------------------- the loops against a remote list that stays put
\*
\* The remote source holds one document, published once: every probe that
\* gets through returns its publish date and every fetch that gets through
\* returns its text. Requests and the parse may still fail. Tasks are
\* scheduled fairly: the runtime polls every spawned task, and the interval
\* ticks.

RetryGood ==
    Response(TRUE, 1, TRUE, TRUE, Num(1970), Num(1), Num(30))

RetryResponses ==
    {res \in Responses : publish_date_of(res).kind # "Ok"} \cup {RetryGood}

RetryAddress == "1A2b3C"

RetryDocument ==
    << StartDocument,
       StartElement(Elem("Feature", {Attr("FeatureTypeID", BTC_ID)})),
       StartElement(Elem("VersionDetail", {})),
       Characters(RetryAddress),
       EndElement(Elem("VersionDetail", {})),
       EndElement(Elem("Feature", {Attr("FeatureTypeID", BTC_ID)})),
       EndDocument >>

InitRetry == Init /\ variant \in {"sync", "lock"}

RetryProbe(t) ==
    /\ pc[t] = "probe"
    /\ \E res \in RetryResponses : Probe(t, res)
    /\ UNCHANGED aside

\* What of the document the reader of task t has not yet yielded.
Remaining(t) == IF docPhase[t] = "start" THEN RetryDocument ELSE replay.doc

RetryParse(t) ==
    /\ pc[t] = "parse"
    /\ \E e \in {Head(Remaining(t)), ParseError} :
          /\ ParseEvent(t, e)
          /\ IF PassOver(e) THEN Release(t) ELSE UNCHANGED locks
    /\ replay' = [replay EXCEPT !.doc = Tail(Remaining(t))]
    /\ UNCHANGED <<reader, answer, tx, inserted_for>>

RetryStep(t) ==
    \/ Start(t)
    \/ SyncTick(t)
    \/ RetryProbe(t)
    \/ SyncCompare(t)
    \/ SyncFetch(t)
    \/ LockCompare(t)
    \/ LockAcquire(t)
    \/ LockTick(t)
    \/ LockSet(t)
    \/ LockFetch(t)
    \/ RetryParse(t)

NextRetry == \E t \in Tasks : RetryStep(t)

SpecRetry ==
    InitRetry /\ [][NextRetry]_vars /\ \A t \in Tasks : WF_vars(RetryStep(t))

\* ------------------------------------- mpc_sign_tx.rs: create_transaction

U64 == 0 .. (2 ^ AmountBits - 1)

\* `a - b` on the unsigned type: below zero it panics where overflow checks
\* are compiled in (debug) and wraps where they are not (release).
sub(a, b) ==
    IF a >= b THEN {Ok(a - b)}
    ELSE {Panic, Ok((a - b) % (2 ^ AmountBits))}

Utxos == {<<"0a38352d", 0>>, <<"0a38352d", 1>>}
Addresses == {"bob"}

TxIn(utxo) == [previous_output |-> [txid |-> utxo[1], vout |-> utxo[2]]]
TxOut(value, script_pubkey) == [value |-> value, script_pubkey |-> script_pubkey]

\* The outcomes of create_transaction: a panic or the Transaction returned.
create_transaction(utxo, satoshi_amount, bob_address, fee_bitcoin_sat, fee_zkbitcoin_sat) ==
    LET inputs == <<TxIn(utxo)>>
        after_fee == sub(satoshi_amount, fee_bitcoin_sat)
        amounts_for_bob ==
            UNION {IF d.kind = "Ok" THEN sub(d.val, fee_zkbitcoin_sat) ELSE {Panic} :
                     d \in after_fee}
    IN  {IF amount_for_bob.kind = "Ok"
         THEN Ok([input |-> inputs,
                  output |-> <<TxOut(amount_for_bob.val, bob_address),
                               TxOut(fee_zkbitcoin_sat, "p2tr(ZKBITCOIN_PUBKEY)")>>])
         ELSE [kind |-> "Panic", val |-> NoTransaction] : amount_for_bob \in amounts_for_bob}

\* The arguments of a call about to be made.
TxCalls ==
    {[called |-> FALSE, utxo |-> utxo, bob_address |-> bob_address,
      satoshi_amount |-> satoshi_amount, fee_bitcoin_sat |-> fee_bitcoin_sat,
      fee_zkbitcoin_sat |-> fee_zkbitcoin_sat,
      result |-> [kind |-> "Panic", val |-> NoTransaction]] :
        utxo \in Utxos, bob_address \in Addresses,
        satoshi_amount \in U64, fee_bitcoin_sat \in U64, fee_zkbitcoin_sat \in U64}

InitTx ==
    /\ variant = "sync"
    /\ pc = [t \in Tasks |-> "unstarted"]
    /\ sanctioned_addresses = <<>>
    /\ last_update = 0
    /\ addr_writer = 0
    /\ ts_writer = 0
    /\ publish_date = [t \in Tasks |-> 0]
    /\ inside_feature_elem = [t \in Tasks |-> FALSE]
    /\ inside_final_elem = [t \in Tasks |-> FALSE]
    /\ docPhase = [t \in Tasks |-> "none"]
    /\ docStack = [t \in Tasks |-> <<>>]
    /\ outcome = [t \in Tasks |-> "none"]
    /\ before = [t \in Tasks |-> 0]
    /\ probe_failed = [t \in Tasks |-> FALSE]
    /\ expected = [t \in Tasks |-> {}]
    /\ qualified = {}
    /\ inserted = {}
    /\ ticked = [t \in Tasks |-> FALSE]
    /\ inserted_for = 0
    /\ replay = NoReplay
    /\ reader = "idle"
    /\ answer = NoAnswer
    /\ tx \in TxCalls

CreateTransaction ==
    /\ ~tx.called
    /\ \E result \in create_transaction(tx.utxo, tx.satoshi_amount, tx.bob_address,
                                        tx.fee_bitcoin_sat, tx.fee_zkbitcoin_sat) :
          tx' = [tx EXCEPT !.called = TRUE, !.result = result]
    /\ UNCHANGED <<variant, pc, publish_date, registry, locks, parser, history,
                   replay, reader, answer>>

NextTx == CreateTransaction

SpecTx == InitTx /\ [][NextTx]_vars

\* ------------------------------------------- the parse pass, run twice
\*
\* The parse loop of sync() on its own: from any registry earlier passes can
\* have left, one pass reads a document event by event, the events are kept,
\* and a second pass reads the same events again.

StartingRegistries == UNION {[S -> {TRUE}] : S \in SUBSET Addr}

InitReparse ==
    /\ variant = "sync"
    /\ pc = [t \in Tasks |-> IF t = 1 THEN "parse" ELSE "unstarted"]
    /\ sanctioned_addresses \in StartingRegistries
    /\ last_update = SecondsPerDay
    /\ addr_writer = 0
    /\ ts_writer = 0
    /\ publish_date = [t \in Tasks |-> IF t = 1 THEN SecondsPerDay ELSE 0]
    /\ inside_feature_elem = [t \in Tasks |-> FALSE]
    /\ inside_final_elem = [t \in Tasks |-> FALSE]
    /\ docPhase = [t \in Tasks |-> IF t = 1 THEN "start" ELSE "none"]
    /\ docStack = [t \in Tasks |-> <<>>]
    /\ outcome = [t \in Tasks |-> IF t = 1 THEN "running" ELSE "none"]
    /\ before = [t \in Tasks |-> 0]
    /\ probe_failed = [t \in Tasks |-> FALSE]
    /\ expected = [t \in Tasks |-> {}]
    /\ qualified = {}
    /\ inserted = DOMAIN sanctioned_addresses
    /\ ticked = [t \in Tasks |-> FALSE]
    /\ inserted_for = 0
    /\ replay = [pass |-> 1, doc |-> <<>>, from |-> sanctioned_addresses, once |-> <<>>]
    /\ reader = "idle"
    /\ answer = NoAnswer
    /\ tx = NoTx

\* A turn of the parse loop in the first pass; the event read is kept.
ReadOnce ==
    /\ replay.pass = 1 /\ pc[1] = "parse"
    /\ Len(replay.doc) < MaxEvents
    /\ \E e \in NextEvents(docPhase[1], docStack[1]) :
          /\ ParseEvent(1, e)
          /\ replay' = [replay EXCEPT
                          !.doc = Append(@, e),
                          !.pass = IF PassOver(e) THEN 2 ELSE 1,
                          !.once = IF PassOver(e) THEN sanctioned_addresses' ELSE @]
    /\ UNCHANGED <<locks, reader, answer, tx, inserted_for>>

\* The parser and its flags are made anew over the same text.
Reread ==
    /\ replay.pass = 2 /\ pc[1] = CycleStart(variant)
    /\ BeginPass(1)
    /\ UNCHANGED <<variant, registry, locks, replay, reader, answer, tx>>

\* A turn of the parse loop in the second pass, on the event kept.
ReadAgain ==
    /\ replay.pass = 2 /\ pc[1] = "parse"
    /\ replay.doc # <<>>
    /\ ParseEvent(1, Head(replay.doc))
    /\ replay' = [replay EXCEPT
                    !.doc = Tail(@),
                    !.pass = IF PassOver(Head(replay.doc)) THEN 3 ELSE 2]
    /\ UNCHANGED <<locks, reader, answer, tx, inserted_for>>

NextReparse == ReadOnce \/ Reread \/ ReadAgain

SpecReparse == InitReparse /\ [][NextReparse]_vars


\* ================================================================ claims

\* Task t takes the step and leaves the position it was at.
Moved(t) == pc'[t] # pc[t]

Running == {t \in Tasks : pc[t] # "unstarted"}

Recorded == DOMAIN sanctioned_addresses

\* C1: every address in the registry was character content of a
\* VersionDetail element nested inside a Feature element whose FeatureTypeID
\* is "344", whatever came before it in the document or in earlier passes.
C1_OnlyQualifyingRecorded == Recorded \subseteq qualified

\* C2: when a pass has read its document to the end without a parse error,
\* the registry holds the text of every VersionDetail nested inside a
\* Feature with FeatureTypeID "344" of that document.
C2_CompletePassRecordsAll ==
    \A t \in Tasks : outcome[t] = "complete" => expected[t] \subseteq Recorded

\* C3: a cycle whose probe returned a publish date not newer than last_update
\* ends at the comparison: no fetch, no parse, the address set and
\* last_update unchanged.
C3_NotNewerSkipsFetch ==
    [][\A t \in Tasks :
          (pc[t] = "compare" /\ Moved(t) /\ publish_date[t] <= last_update)
          => /\ pc'[t] = CycleStart(variant)
             /\ outcome'[t] = "up-to-date"
             /\ UNCHANGED registry]_vars

C3_Witness ==
    \E t \in Tasks :
        outcome[t] = "up-to-date" /\ last_update > 0 /\ Recorded # {}

\* C4: a cycle whose probe returned a publish date newer than last_update
\* goes from the comparison to the full fetch without ending in between, and
\* reaches the fetch with last_update set to exactly that date.
C4_NewerAdvancesAndFetches ==
    [][\A t \in Tasks :
          /\ (pc[t] = "compare" /\ Moved(t) /\ publish_date[t] > last_update)
             => pc'[t] = IF variant = "lock" THEN "acquire" ELSE "fetch"
          /\ (pc[t] = "acquire" /\ Moved(t)) => pc'[t] = "tick"
          /\ (variant = "lock" /\ pc[t] = "tick" /\ Moved(t)) => pc'[t] = "set"
          /\ (pc[t] = "set" /\ Moved(t)) => pc'[t] = "fetch"
          /\ (pc'[t] = "fetch" /\ Moved(t))
             => last_update' = publish_date[t] /\ publish_date'[t] = publish_date[t]
          /\ (pc[t] = "fetch" /\ Moved(t)) => pc'[t] \in {"parse", CycleStart(variant)}
          /\ (pc[t] = "fetch" /\ ~Moved(t)) => last_update' = last_update]_vars

C4_Witness ==
    \E t \in Tasks :
        /\ pc[t] = "fetch"
        /\ before[t] < publish_date[t]
        /\ last_update = publish_date[t]

\* C5: when the probe reported a newer date and the full fetch (or the
\* decoding of its body) fails, the cycle ends with last_update at the value
\* it had before the cycle and the address set unchanged.
C5_FailedFetchKeepsTimestamp ==
    [][\A t \in Tasks :
          (pc[t] = "fetch" /\ outcome'[t] = "fetch failed")
          => /\ last_update' = before[t]
             /\ sanctioned_addresses' = sanctioned_addresses]_vars

\* C6: a probe that fails (no connection, an undecodable chunk, a date field
\* absent or not a number, a date not in the calendar) ends the cycle: the
\* task is back at the start of its loop without a fetch, the failure is
\* taken neither for "up-to-date" nor for a date, and the address set and
\* last_update are unchanged.
C6_FailedProbeEndsCycle ==
    [][\A t \in Tasks :
          (pc[t] = "probe" /\ probe_failed'[t]
             /\ <<pc[t], outcome[t], probe_failed[t]>>
                  # <<pc'[t], outcome'[t], probe_failed'[t]>>)
          => /\ pc'[t] = CycleStart(variant)
             /\ outcome'[t] = "probe failed"
             /\ publish_date'[t] = 0
             /\ UNCHANGED registry]_vars

C6_Witness ==
    \E t \in Tasks :
        /\ probe_failed[t]
        /\ outcome[t] = "probe failed"
        /\ pc[t] = CycleStart(variant)
        /\ last_update > 0
        /\ Recorded # {}

\* C7: while a single scheduler task runs, last_update never decreases,
\* whatever dates the probes return and wherever the cycles fail.
C7_SingleTaskMonotonic ==
    [][Cardinality(Running) <= 1 => last_update' >= last_update]_vars

C7_Witness ==
    \E t \in Tasks :
        /\ Running = {t}
        /\ pc[t] = "compare"
        /\ publish_date[t] < last_update

\* C8: last_update never decreases, also when two cycles on the same
\* lock-guarded registry interleave and their probes returned dates out of
\* order.
C8_InterleavedMonotonic == [][last_update' >= last_update]_vars

\* C9: the registry is append-only: an address once recorded stays recorded
\* with flag true through every later step of every cycle.
C9_AppendOnly ==
    [][\A a \in Recorded :
          /\ sanctioned_addresses[a]
          /\ a \in DOMAIN sanctioned_addresses'
          /\ sanctioned_addresses'[a]]_vars

C9_Witness ==
    \E t \in Tasks :
        /\ outcome[t] = "complete"
        /\ expected[t] = {}
        /\ Recorded = Addr
        /\ last_update > 0

\* C10: a parse error ends the pass at that event: what was recorded before
\* it stays recorded, the error step itself records and removes nothing, the
\* task is back at the start of its loop (the error is not raised) with its
\* write guards released, and nothing more of that document is read.
C10_ParseErrorEndsPass ==
    [][\A t \in Tasks :
          (outcome[t] = "running" /\ outcome'[t] = "parse error")
          => /\ sanctioned_addresses' = sanctioned_addresses
             /\ pc'[t] = CycleStart(variant)
             /\ docPhase'[t] = "none"
             /\ addr_writer' # t /\ ts_writer' # t]_vars

C10_Witness ==
    \E t \in Tasks :
        /\ outcome[t] = "parse error"
        /\ pc[t] = CycleStart(variant)
        /\ expected[t] # {}
        /\ expected[t] \subseteq Recorded

\* C11: parsing the same document a second time leaves the registry with
\* exactly the keys the first pass left, from whatever registry the first
\* pass started: at no turn of the second pass is a key added or removed,
\* and the flags stay true.
C11_SecondPassChangesNothing ==
    replay.pass \in {2, 3} => sanctioned_addresses = replay.once

C11_Witness ==
    /\ replay.pass = 3
    /\ outcome[1] = "complete"
    /\ replay.from # <<>>
    /\ DOMAIN replay.once # DOMAIN replay.from

\* C12: in the lock-guarded variant, from the write of a cycle's new publish
\* date until the cycle ends no lookup holds a read guard (it blocks), and the
\* step that lets lookups in again, by releasing the guards, is the end of a
\* pass that read its document to the end: a lookup finds either the state
\* before the cycle or the new date with the completely updated address set,
\* however the cycle ends.
C12_ReaderSeesOldOrComplete ==
    [][\A t \in Tasks :
          (variant = "lock" /\ ts_writer = t)
          => /\ reader = "idle"
             /\ last_update = publish_date[t]
             /\ (ts_writer' # t => outcome'[t] = "complete")]_vars

\* C13: is_sanctioned answers true exactly for the addresses a parse pass has
\* inserted (so false for every address while the registry is as new() made
\* it), the call leaves the address set and last_update as they were, and
\* every step that changes either is a step of a sync cycle.
C13_LookupReadsInserted ==
    [][/\ answer' # answer
          => /\ answer'.found = (answer'.address \in inserted)
             /\ UNCHANGED registry
       /\ registry' # registry
          => /\ answer' = answer
             /\ \E t \in Tasks : pc[t] \in {"compare", "set", "parse"}]_vars

C13_Witness ==
    /\ answer.found
    /\ answer.address \in Recorded
    /\ Recorded # Addr
    /\ last_update > 0

\* C14: whatever fails inside a cycle (the probe's transport, a response
\* without any chunk, a chunk that is no UTF-8, a date field missing or not a
\* number, a date not in the calendar, the full fetch, a malformed markup
\* event), the task that ran the cycle is running afterwards: no task is ever
\* stopped by a panic.
C14_NoFailureStopsTheLoop == \A t \in Tasks : pc[t] # "panicked"

\* C15: in the lock-guarded loop a task that probes has awaited a tick of
\* the interval since its previous probe (or since it started): no probe
\* follows a failed probe or an up-to-date result without a tick between.
C15_TickBeforeEveryProbe ==
    [][\A t \in Tasks :
          (variant = "lock" /\ pc[t] = "probe"
             /\ <<pc[t], outcome[t], probe_failed[t]>>
                  # <<pc'[t], outcome'[t], probe_failed'[t]>>)
          => ticked[t]]_vars

\* C16: whenever the registry holds an address that the cycle for publish
\* date T' added, last_update is at least T': the timestamp is written before
\* the cycle's first insert and is not below T' in any later state.
C16_TimestampCoversInserted == inserted_for <= last_update

\* No task's last cycle ended in a failure, and no task has panicked.
Healthy ==
    \A t \in Tasks :
        /\ outcome[t] \notin {"probe failed", "fetch failed", "parse error"}
        /\ pc[t] # "panicked"

\* C17: the remote document has a publish date newer than last_update and
\* does not change; if from some point on nothing fails any more, the
\* registry eventually holds the document's qualifying address, whatever
\* failed before (a probe, the full fetch, the parse).
C17_LoadedOnceFailuresStop == (<>[]Healthy) => <>(RetryAddress \in Recorded)

\* C18: in the lock-guarded variant a task holds the write guard of the
\* address set only from the timestamp write through the fetch and the
\* parse, never while it awaits the interval's tick: while no pass is in
\* progress a lookup can take its read guard.
C18_WriteGuardOnlyInPass ==
    \A t \in Tasks :
        (variant = "lock" /\ addr_writer = t) => pc[t] \in {"set", "fetch", "parse"}

\* C19: in the lock-guarded variant at most one task is in a full-sync pass;
\* from its timestamp write to the end of its parse it holds both write
\* guards, so no other task's timestamp write or insert falls in between;
\* and no lookup holds a read guard on the address set while a task holds
\* the write guard.
C19_OnePassAtATime ==
    variant = "lock" =>
        /\ Cardinality({t \in Tasks : pc[t] \in {"fetch", "parse"}}) <= 1
        /\ \A t \in Tasks :
              pc[t] \in {"fetch", "parse"} => addr_writer = t /\ ts_writer = t
        /\ addr_writer # 0 => reader = "idle"

C19_Witness ==
    \E t, u \in Tasks :
        /\ variant = "lock"
        /\ pc[t] = "parse" /\ Recorded # {}
        /\ pc[u] = "acquire"

\* C20: every transaction create_transaction returns has one input, the
\* given utxo, and two outputs, the first of satoshi_amount - fee_bitcoin_sat
\* - fee_zkbitcoin_sat and the second of fee_zkbitcoin_sat, so that the
\* outputs and fee_bitcoin_sat add up to satoshi_amount; none is returned
\* when the two fees exceed satoshi_amount.
C20_ValueConserved ==
    (tx.called /\ tx.result.kind = "Ok") =>
        LET t == tx.result.val
        IN  /\ Len(t.input) = 1
            /\ t.input[1].previous_output = [txid |-> tx.utxo[1], vout |-> tx.utxo[2]]
            /\ Len(t.output) = 2
            /\ t.output[1].value =
                  tx.satoshi_amount - tx.fee_bitcoin_sat - tx.fee_zkbitcoin_sat
            /\ t.output[2].value = tx.fee_zkbitcoin_sat
            /\ t.output[1].value + t.output[2].value + tx.fee_bitcoin_sat
                  = tx.satoshi_amount
            /\ tx.fee_bitcoin_sat + tx.fee_zkbitcoin_sat <= tx.satoshi_amount

====
